---- MODULE Spec2Model ----
(***************************************************************************)
(* Model of the ServiceNow query front end: the App component of          *)
(* frontend/src/App.jsx (React state, the mount effect that loads the     *)
(* history, the asynchronous submit handler) together with the            *)
(* localStorage slot 'searchHistory'.                                      *)
(*                                                                         *)
(* JavaScript runs the component on one thread: an event handler, an      *)
(* effect and the continuation of an await each run to completion, and    *)
(* React re-renders before the next event is delivered.  Each of them is  *)
(* therefore one action.  A handler closes over the state values of the   *)
(* render that created it, so a request in flight carries the query and   *)
(* the searchHistory that were current when it was submitted.             *)
(*                                                                         *)
(* The results table, the postcss plugin of frontend/vite.config.ts and    *)
(* the dev server's proxy rule are functions of their input; each has a    *)
(* specification of its own (SpecRender, SpecCss, SpecProxy) that draws    *)
(* the input in its initial state and applies the function.                *)
(***************************************************************************)
EXTENDS Naturals, Sequences, FiniteSets

\* ---------------------------------------------------------------- bounds
MaxSubmits == 2     \* submissions issued in one session
MaxClock == 2       \* last value of the millisecond clock
MaxRecords == 2     \* records in one result
MaxTokens == 2      \* url(...) tokens in one declaration value
MaxPasses == 2      \* times the plugin is applied to one declaration
MaxSegments == 3    \* segments in the path of a request to the dev server

\* ------------------------------------------------------------- JS values
Null == "<null>"              \* useState(null): results and error
Undefined == "<undefined>"    \* a property the object does not have

\* JS truthiness of a string-or-null-or-undefined value
Truthy(v) == v # Null /\ v # Undefined /\ v # ""

\* the text typed into the input, a sequence of characters: the empty string
\* and a string that holds a double quote
Queries == { <<>>, <<"a", "\"">> }

\* new Date().toISOString(): fixed-width digits, so that the text order is
\* the time order
Digits == <<"0", "1", "2", "3", "4", "5", "6", "7", "8", "9">>
toISOString(n) == << Digits[((n \div 10) % 10) + 1], Digits[(n % 10) + 1] >>

\* ------------------------------------------------------------------ JSON
\* Escape without the escaping of the double quote
RECURSIVE EscapeNoQuote(_)
EscapeNoQuote(s) ==
  IF s = <<>> THEN <<>>
  ELSE (IF Head(s) = "\\" THEN <<"\\", Head(s)>> ELSE <<Head(s)>>)
       \o EscapeNoQuote(Tail(s))

\* JSON.stringify of the characters of a string: the double quote and the
\* backslash are escaped with a backslash
RECURSIVE Escape(_)
Escape(s) ==
  IF s = <<>> THEN <<>>
  ELSE (IF Head(s) \in {"\"", "\\"} THEN <<"\\", Head(s)>> ELSE <<Head(s)>>)
       \o Escape(Tail(s))

StringifyString(s) == <<"\"">> \o Escape(s) \o <<"\"">>

StringifyEntry(e) ==
  <<"{", "\"query\":">> \o StringifyString(e.query)
  \o <<",", "\"timestamp\":">> \o StringifyString(e.timestamp) \o <<"}">>

RECURSIVE StringifyEntries(_)
StringifyEntries(h) ==
  IF h = <<>> THEN <<>>
  ELSE IF Len(h) = 1 THEN StringifyEntry(h[1])
  ELSE StringifyEntry(h[1]) \o <<",">> \o StringifyEntries(Tail(h))

\* JSON.stringify(newHistory): an array of {query, timestamp} objects
JSONstringify(h) == <<"[">> \o StringifyEntries(h) \o <<"]">>

\* the result of a parse step: ok = FALSE is a SyntaxError; next is the
\* position after the value
ParseFail == [ok |-> FALSE, val |-> <<>>, next |-> 0]

\* the characters of a string literal from position i (after the opening
\* quote) up to the closing quote
RECURSIVE ReadChars(_, _, _)
ReadChars(s, i, acc) ==
  IF i > Len(s) THEN ParseFail
  ELSE IF s[i] = "\"" THEN [ok |-> TRUE, val |-> acc, next |-> i + 1]
  ELSE IF s[i] = "\\"
       THEN IF i + 1 > Len(s) \/ s[i + 1] \notin {"\"", "\\"} THEN ParseFail
            ELSE ReadChars(s, i + 2, Append(acc, s[i + 1]))
  ELSE ReadChars(s, i + 1, Append(acc, s[i]))

ParseString(s, i) ==
  IF i > Len(s) \/ s[i] # "\"" THEN ParseFail ELSE ReadChars(s, i + 1, <<>>)

Expect(s, i, tok) == i <= Len(s) /\ s[i] = tok

\* {"query":<string>,"timestamp":<string>} at position i
ParseEntry(s, i) ==
  IF ~(Expect(s, i, "{") /\ Expect(s, i + 1, "\"query\":")) THEN ParseFail
  ELSE LET q == ParseString(s, i + 2)
       IN IF ~q.ok THEN ParseFail
          ELSE IF ~(Expect(s, q.next, ",")
                    /\ Expect(s, q.next + 1, "\"timestamp\":"))
               THEN ParseFail
          ELSE LET t == ParseString(s, q.next + 2)
               IN IF ~t.ok \/ ~Expect(s, t.next, "}") THEN ParseFail
                  ELSE [ok |-> TRUE,
                        val |-> [query |-> q.val, timestamp |-> t.val],
                        next |-> t.next + 1]

\* the elements of an array from position i (after "[" or after a ",")
RECURSIVE ParseElements(_, _, _)
ParseElements(s, i, acc) ==
  LET e == ParseEntry(s, i)
  IN IF ~e.ok THEN ParseFail
     ELSE IF Expect(s, e.next, "]")
          THEN [ok |-> TRUE, val |-> Append(acc, e.val), next |-> e.next + 1]
     ELSE IF Expect(s, e.next, ",")
          THEN ParseElements(s, e.next + 1, Append(acc, e.val))
     ELSE ParseFail

\* JSON.parse(text): ok = FALSE when it throws a SyntaxError; isArray tells
\* an array from another JSON value (here the empty object)
JSONparse(s) ==
  IF s = <<"{", "}">> THEN [ok |-> TRUE, isArray |-> FALSE, val |-> <<>>]
  ELSE IF ~Expect(s, 1, "[") THEN [ok |-> FALSE, isArray |-> FALSE, val |-> <<>>]
  ELSE IF s = <<"[", "]">> THEN [ok |-> TRUE, isArray |-> TRUE, val |-> <<>>]
  ELSE LET r == ParseElements(s, 2, <<>>)
       IN IF r.ok /\ r.next = Len(s) + 1
          THEN [ok |-> TRUE, isArray |-> TRUE, val |-> r.val]
          ELSE [ok |-> FALSE, isArray |-> FALSE, val |-> <<>>]

\* ----------------------------------------------------------------- state
VARIABLES
  query,          \* useState(''): the text of the input
  results,        \* useState(null): response.data of a resolved request
  loading,        \* useState(false)
  error,          \* useState(null): the message shown in .error-message
  searchHistory,  \* useState([]): {query, timestamp} entries, newest first
  storage,        \* localStorage slot 'searchHistory'
  phase,          \* "constructed" (first render done), "mounted" (effect
                  \* has run), "crashed" (an error escaped an effect or a
                  \* render and React removed the component)
  inflight,       \* requests awaiting their response, each with the values
                  \* its handleSubmit closure captured
  nextId,         \* number of the next submission
  now,            \* the clock read by new Date()
  arrivals,       \* the last two responses processed, in arrival order, each
                  \* with the request it answers
  sent,           \* number of axios.get calls made so far
  historyIds,     \* for each entry of searchHistory, the number of the
                  \* submission that recorded it (0: an earlier session)
  view,           \* what the results table shows for results
  mode,           \* the build profile vite runs the config under
  declIn,         \* a declaration as written: its property and the
                  \* url(...) tokens of its value
  decl,           \* decl.value as the postcss plugin leaves it
  passes,         \* number of times the plugin has walked the declaration
  req,            \* a request as the browser sends it
  delivered       \* the request as the backend receives it

appVars == << query, results, loading, error, searchHistory, storage, phase,
              inflight, nextId, now, arrivals, sent, historyIds >>
renderVars == << view >>
cssVars == << mode, declIn, decl, passes >>
proxyVars == << req, delivered >>
buildVars == << renderVars, cssVars, proxyVars >>

vars == << appVars, buildVars >>

\* ------------------------------------------------------- the environment
\* what getItem finds in the slot when the page opens: nothing, the empty
\* string, text that is not JSON, JSON that is not an array, and the arrays
\* an earlier session wrote
OlderEntry == [query |-> <<"\"", "a">>, timestamp |-> toISOString(0)]
InitialSlots ==
  { [present |-> FALSE, text |-> <<>>],
    [present |-> TRUE, text |-> <<>>],
    [present |-> TRUE, text |-> <<"[", "{">>],
    [present |-> TRUE, text |-> <<"{", "}">>],
    [present |-> TRUE, text |-> JSONstringify(<<>>)],
    [present |-> TRUE, text |-> JSONstringify(<<OlderEntry>>)] }

\* response.data
NullBody == [null |-> TRUE]
Body(success, data, err) ==
  [null |-> FALSE, success |-> success, data |-> data, error |-> err]

\* the ways a request ends.  axios resolves on a 2xx status and rejects
\* otherwise: with err.response when the server answered, without it when
\* no response was received; err.message is axios' own description
Responses ==
  { [status |-> "2xx", body |-> Body("true", <<"CHG1">>, Undefined), message |-> ""],
    [status |-> "2xx", body |-> Body("false", <<>>, "bad query"), message |-> ""],
    [status |-> "5xx", body |-> Body("false", <<>>, "boom"),
     message |-> "Request failed with status code 500"],
    [status |-> "5xx", body |-> Body(Undefined, <<>>, Undefined),
     message |-> "Request failed with status code 500"],
    [status |-> "5xx", body |-> NullBody,
     message |-> "Request failed with status code 500"],
    [status |-> "none", body |-> NullBody, message |-> "Network Error"] }

\* the request of line 25: an absolute URL, and the params object
BackendOrigin == "http://localhost:8000"
SearchPath == << "/", "a", "p", "i", "/", "search_snow" >>
MaxResults == 100
SearchRequest(q) ==
  [origin |-> BackendOrigin, path |-> SearchPath,
   params |-> [search_query |-> q, max_results |-> MaxResults]]

Resolved(resp) == resp.status = "2xx"
HasResponse(resp) == resp.status # "none"     \* err.response is set

\* ------------------------------------------------------------------ Init
\* nothing rendered, built or proxied: the values the variables of the
\* other components have while this one is looked at
NoView == view = [rendered |-> FALSE, shown |-> FALSE, count |-> 0,
                  rows |-> <<>>]
NoBuild == /\ mode = "development"
           /\ declIn = [prop |-> "", tokens |-> <<>>]
           /\ decl = <<>>
           /\ passes = 0
NoProxy == /\ req = [origin |-> "", path |-> <<>>]
           /\ delivered = [to |-> "", origin |-> "", path |-> <<>>]

Init ==
  /\ query = <<>>
  /\ results = NullBody
  /\ loading = FALSE
  /\ error = Null
  /\ searchHistory = <<>>
  /\ storage \in InitialSlots
  /\ phase = "constructed"
  /\ inflight = {}
  /\ nextId = 1
  /\ now = 1
  /\ arrivals = <<>>
  /\ sent = 0
  /\ historyIds = <<>>
  /\ NoView /\ NoBuild /\ NoProxy

\* --------------------------------------------------------------- actions
\* if (savedHistory) with the mutation: any string, the empty one too
SavedIsNotNull(slot) == slot.present

\* if (savedHistory): getItem gave a non-empty string
SavedIsTruthy(slot) == slot.present /\ slot.text # <<>>

\* useEffect(..., []): runs once, after the first render.  A SyntaxError of
\* JSON.parse escapes the effect; a parsed value that is not an array is
\* stored and the next render fails in searchHistory.map.  Either way React
\* removes the component.
loadHistory ==
  /\ phase = "constructed"
  /\ IF ~SavedIsTruthy(storage)
     THEN /\ phase' = "mounted"
          /\ UNCHANGED << searchHistory, historyIds >>
     ELSE LET p == JSONparse(storage.text)
          IN IF p.ok /\ p.isArray
             THEN /\ phase' = "mounted"
                  /\ searchHistory' = p.val
                  /\ historyIds' = [i \in 1..Len(p.val) |-> 0]
             ELSE /\ phase' = "crashed"
                  /\ UNCHANGED << searchHistory, historyIds >>
  /\ UNCHANGED << query, results, loading, error, storage, inflight, nextId,
                  now, arrivals, sent, buildVars >>

\* onChange of the input: setQuery(e.target.value)
onChange(q) ==
  /\ phase = "mounted"
  /\ query' = q
  /\ UNCHANGED << results, loading, error, searchHistory, storage, phase,
                  inflight, nextId, now, arrivals, sent, historyIds,
                  buildVars >>

\* handleSubmit up to the await: the form's onSubmit runs it for every
\* submit event.  (disabled={loading} takes the button out of the way while
\* loading; the handler itself has no guard.)  One axios.get per call.  The
\* request carries what the closure holds: query and searchHistory of the
\* current render.
handleSubmit ==
  /\ phase = "mounted"
  /\ nextId <= MaxSubmits
  /\ loading' = TRUE
  /\ error' = Null
  /\ inflight' = inflight \cup
        { [id |-> nextId, query |-> query, searchHistory |-> searchHistory,
           overlaps |-> { r.id : r \in inflight },
           request |-> SearchRequest(query),
           historyIds |-> historyIds] }
  /\ sent' = sent + 1
  /\ nextId' = nextId + 1
  /\ UNCHANGED << query, results, searchHistory, storage, phase, now, arrivals,
                  historyIds, buildVars >>

\* Prepend with the mutation: the new element goes to the end
PutLast(x, s) == s \o << x >>

\* [x, ...s]
Prepend(x, s) == << x >> \o s

\* [{ query, timestamp: new Date().toISOString() }, ...searchHistory]
NewHistory(q, hist, t) ==
  Prepend([query |-> q, timestamp |-> toISOString(t)], hist)

\* Resolve with the mutation: the entry takes the text the input holds when
\* the response arrives
ResolveLatestQuery(r, resp) ==
  LET newHistory == NewHistory(query, r.searchHistory, now)
  IN /\ searchHistory' = newHistory
     /\ historyIds' = Prepend(r.id, r.historyIds)
     /\ storage' = [present |-> TRUE, text |-> JSONstringify(newHistory)]
     /\ results' = resp.body
     /\ loading' = FALSE
     /\ UNCHANGED << error, sent >>

\* the try block after the await, then finally
Resolve(r, resp) ==
  LET newHistory == NewHistory(r.query, r.searchHistory, now)
  IN /\ searchHistory' = newHistory
     /\ historyIds' = Prepend(r.id, r.historyIds)
     /\ storage' = [present |-> TRUE, text |-> JSONstringify(newHistory)]
     /\ results' = resp.body
     /\ loading' = FALSE
     /\ UNCHANGED << error, sent >>

\* err.response ? err.response.data.error || 'An error occurred'
\*              : err.message
\* threw: reading .error of a null data raises a TypeError
ErrorMessage(resp) ==
  IF HasResponse(resp)
  THEN IF resp.body.null THEN [threw |-> TRUE, msg |-> Null]
       ELSE [threw |-> FALSE,
             msg |-> IF Truthy(resp.body.error) THEN resp.body.error
                     ELSE "An error occurred"]
  ELSE [threw |-> FALSE, msg |-> resp.message]

\* Reject with the mutation: the failed query is put in the history too
RejectRecording(r, resp) ==
  LET m == ErrorMessage(resp)
      newHistory == NewHistory(r.query, r.searchHistory, now)
  IN /\ error' = IF m.threw THEN error ELSE m.msg
     /\ loading' = FALSE
     /\ searchHistory' = newHistory
     /\ historyIds' = Prepend(r.id, r.historyIds)
     /\ storage' = [present |-> TRUE, text |-> JSONstringify(newHistory)]
     /\ UNCHANGED << results, sent >>

\* Reject with the mutation: the failed request is issued once more
RejectRetrying(r, resp) ==
  LET m == ErrorMessage(resp)
  IN /\ error' = IF m.threw THEN error ELSE m.msg
     /\ loading' = FALSE
     /\ sent' = sent + 1
     /\ UNCHANGED << results, searchHistory, historyIds, storage >>

\* Reject with the mutation: loading is cleared by the last response only
RejectCountingRequests(r, resp) ==
  LET m == ErrorMessage(resp)
  IN /\ error' = IF m.threw THEN error ELSE m.msg
     /\ loading' = (inflight \ {r} # {})
     /\ UNCHANGED << results, searchHistory, historyIds, storage, sent >>

\* the catch block, then finally.  When the catch block itself throws,
\* setError is not reached, finally still runs and the rejection of the
\* handler's promise is nobody's to handle
Reject(r, resp) ==
  LET m == ErrorMessage(resp)
  IN /\ error' = IF m.threw THEN error ELSE m.msg
     /\ loading' = FALSE
     /\ UNCHANGED << results, searchHistory, historyIds, storage, sent >>

\* the last two elements of a sequence
LastTwo(s) == IF Len(s) > 2 THEN Tail(s) ELSE s

\* the continuation of await axios.get(...) for request r
Receive(r, resp) ==
  /\ phase = "mounted"
  /\ r \in inflight
  /\ IF Resolved(resp) THEN Resolve(r, resp) ELSE Reject(r, resp)
  /\ inflight' = inflight \ {r}
  /\ arrivals' = LastTwo(Append(arrivals,
                     [id |-> r.id, query |-> r.query, overlaps |-> r.overlaps,
                      request |-> r.request,
                      resp |-> resp]))
  /\ UNCHANGED << query, phase, nextId, now, buildVars >>

\* a response arrives for one of the requests in flight, in any order and
\* with any outcome
receive == \E r \in inflight, resp \in Responses : Receive(r, resp)

\* the user types
type == \E q \in Queries : onChange(q)

\* time passes.  The clock is read in the continuations only, so time that
\* passes while no request is in flight is left to pass after the next
\* submit
Tick ==
  /\ now < MaxClock
  /\ inflight # {}
  /\ now' = now + 1
  /\ UNCHANGED << query, results, loading, error, searchHistory, storage,
                  phase, inflight, nextId, arrivals, sent, historyIds,
                  buildVars >>

Next ==
  \/ loadHistory
  \/ type
  \/ handleSubmit
  \/ receive
  \/ Tick

Spec == Init /\ [][Next]_vars

\* ------------------------------------------------------------ vocabulary
Range(f) == { f[i] : i \in 1..Len(f) }
Last(f) == f[Len(f)]

\* the four request states, read off the component's state
Loading == loading
Success == results # NullBody      \* a result payload is held
Failed == error # Null             \* an error message is held
Idle == ~Loading /\ ~Success /\ ~Failed

\* a step that issues a request / that processes a response
Issued == nextId' = nextId + 1
Arrived == nextId' = nextId /\ inflight' # inflight

\* what a new session would read from the slot
SlotIsEmpty(slot) == ~slot.present \/ slot.text = <<>>
Stored(slot) == JSONparse(slot.text)

\* two arrivals whose requests were in flight together
Overlapped(a, b) == a.id \in b.overlaps \/ b.id \in a.overlaps

\* ---------------------------------------------------------------- claims
\* C1: no recorded entry is ever lost: when a successful submission appends
\* its entry, every entry that was in the history is still in the in-memory
\* history and in the stored sequence, overlapping submissions included.
C1_NoEntryLost ==
  [][ (Arrived /\ Resolved(Last(arrivals').resp)) =>
        \A e \in Range(searchHistory) :
          /\ e \in Range(searchHistory')
          /\ e \in Range(Stored(storage').val) ]_vars

\* C2: a submission enters Loading, and when its call completes the loading
\* flag is off and exactly one of Success and Failed is the state.
C2_EndsInSuccessOrFailed ==
  [][ /\ Issued => loading'
      /\ Arrived => /\ ~loading'
                    /\ (results' # NullBody) # (error' # Null) ]_vars

\* C3: a successful submission puts exactly one entry {query, timestamp} in
\* front of the history as it was just before, and writes that whole
\* sequence to storage.
C3_PrependsToCurrentHistory ==
  [][ (Arrived /\ Resolved(Last(arrivals').resp)) =>
        /\ searchHistory' =
             << [query |-> Last(arrivals').query,
                 timestamp |-> toISOString(now)] >> \o searchHistory
        /\ Stored(storage').ok
        /\ Stored(storage').val = searchHistory' ]_vars

C5_ApplicationFailureShown ==
  (inflight = {} /\ arrivals # <<>>) =>
    LET resp == Last(arrivals).resp
    IN (HasResponse(resp) /\ ~resp.body.null
        /\ (resp.body.success = "false" \/ resp.body.error # Undefined))
       => error = resp.body.error

\* C6: a malformed stored representation is treated as an absent one: the
\* component comes up with an empty history and no error.
C6_MalformedIsAbsent ==
  (phase # "constructed" /\ ~SlotIsEmpty(storage)
   /\ ~(Stored(storage).ok /\ Stored(storage).isArray))
  => (phase = "mounted" /\ searchHistory = <<>>)

\* C7: on an absent or empty slot loadHistory gives the empty history and no
\* error; it runs once, when the component is initialized, and writes
\* nothing to storage.
C7_EmptySlotLoadsEmpty ==
  [][ /\ (phase = "constructed" /\ phase' # "constructed") =>
           /\ storage' = storage
           /\ SlotIsEmpty(storage) =>
                (phase' = "mounted" /\ searchHistory' = <<>>)
      /\ phase # "constructed" => phase' = phase ]_vars

\* C7 witness: the component has come up on an empty slot
C7_Witness ==
  /\ phase = "mounted"
  /\ SlotIsEmpty(storage)
  /\ nextId = 1
  /\ searchHistory = <<>>

C9_OneRequestState ==
  /\ ~(Success /\ Failed)
  /\ Loading => (~Success /\ ~Failed)

\* C10: of two overlapping submissions the response that arrives last
\* decides everything that is visible; nothing of the earlier arrival stays.
C10_LastArrivalWins ==
  (inflight = {} /\ nextId = 3 /\ Len(arrivals) = 2
   /\ Overlapped(arrivals[1], arrivals[2]))
  => LET resp == arrivals[2].resp
     IN IF Resolved(resp)
        THEN results = resp.body /\ error = Null
        ELSE (HasResponse(resp) => ~resp.body.null)
             => (error # Null /\ results = NullBody)

\* Date.parse of a timestamp text
DigitValue(c) == CHOOSE d \in 0..9 : Digits[d + 1] = c
DateParse(t) == DigitValue(t[1]) * 10 + DigitValue(t[2])

\* C11: on every failure a message is set and the handler raises no error:
\* the error field of the body when a response was received, the transport
\* description when none was; also for a body without an error field and
\* for no body.
C11_FailureMessageSet ==
  [][ (Arrived /\ ~Resolved(Last(arrivals').resp)) =>
        LET resp == Last(arrivals').resp
        IN /\ error' # Null
           /\ (HasResponse(resp) /\ ~resp.body.null /\ Truthy(resp.body.error))
                => error' = resp.body.error
           /\ ~HasResponse(resp) => error' = resp.message ]_vars

\* C15: one request per submission, with search_query = the submitted query
\* and max_results = 100; nothing is re-issued, so the requests made are as
\* many as the submissions.
C15_OneRequestPerSubmission ==
  [][ /\ sent' - sent = nextId' - nextId
      /\ sent = nextId - 1
      /\ Issued =>
           \E r \in inflight' :
             /\ inflight' = inflight \cup {r}
             /\ r \notin inflight
             /\ r.request.params.search_query = query
             /\ r.request.params.max_results = 100
      /\ ~Issued => inflight' \subseteq inflight ]_vars

\* C15 witness: two submissions, both failed, both processed, two requests
C15_Witness ==
  /\ nextId = 3
  /\ inflight = {}
  /\ sent = 2
  /\ Len(arrivals) = 2
  /\ ~Resolved(arrivals[1].resp)
  /\ ~Resolved(arrivals[2].resp)

\* C16: the history is newest first and follows the order of submission: of
\* two entries the one submitted later is nearer the front, and timestamps
\* do not increase from front to back; overlapping submissions included.
C16_NewestFirst ==
  /\ Len(historyIds) = Len(searchHistory)
  /\ \A i, j \in 1..Len(searchHistory) :
       i < j =>
         /\ historyIds[i] >= historyIds[j]
         /\ historyIds[i] = historyIds[j] => historyIds[i] = 0
         /\ DateParse(searchHistory[i].timestamp)
              >= DateParse(searchHistory[j].timestamp)

\* C16 witness: of two overlapping submissions the first one was answered
\* last, and its entry stands in front of an older one
C16_Witness ==
  /\ Len(arrivals) = 2
  /\ Overlapped(arrivals[1], arrivals[2])
  /\ arrivals[2].id = 1
  /\ historyIds = << 1, 0 >>
  /\ DateParse(searchHistory[1].timestamp) > DateParse(searchHistory[2].timestamp)

\* C18: the loading flag is on whenever a request is still awaiting its
\* response; the first response of two overlapping submissions does not
\* clear it.
C18_LoadingWhileInFlight == inflight # {} => loading

\* C18, amended: the loading flag is on from a submission until the next
\* response is processed: every submission sets it, every processed
\* response clears it, also while another request is still in flight, and
\* nothing else changes it.
C18_LoadingUntilNextResponse ==
  [][ /\ Issued => loading'
      /\ Arrived => ~loading'
      /\ (~Issued /\ ~Arrived) => loading' = loading ]_vars

\* C18 witness: a response has been processed, another request is still in
\* flight, and the flag is off
C18_Witness ==
  /\ inflight # {}
  /\ arrivals # <<>>
  /\ Overlapped(Last(arrivals), CHOOSE r \in inflight : TRUE)
  /\ ~loading

\* C19: the entry of a successful submission holds the search_query that
\* was sent, whatever the input holds by then, and the time at which the
\* response is processed.
C19_EntryHoldsSentQuery ==
  [][ (Arrived /\ Resolved(Last(arrivals').resp)) =>
        /\ searchHistory'[1].query =
             Last(arrivals').request.params.search_query
        /\ searchHistory'[1].timestamp = toISOString(now) ]_vars

\* C19 witness: the only submission was issued at time 1; the input was
\* changed and time passed before its response was processed
C19_Witness ==
  /\ nextId = 2
  /\ inflight = {}
  /\ historyIds # <<>>
  /\ historyIds[1] = 1
  /\ searchHistory[1].query # query
  /\ searchHistory[1].timestamp = toISOString(2)

\* =========================================================================
\* The results table (App.jsx lines 47-51 and 77-105): a function of results
\* =========================================================================
\* records as the backend returns them.  assigned_to is an optional nested
\* object whose display_value is a name, is empty or is missing; opened_at
\* is a date text or is missing.  number is unique within a result.
Numbers == { "CHG1", "CHG2", "CHG3" }
AssignedTos ==
  { [present |-> FALSE, display_value |-> Undefined],
    [present |-> TRUE, display_value |-> "J. Doe"],
    [present |-> TRUE, display_value |-> ""],
    [present |-> TRUE, display_value |-> Undefined] }
OpenedAts == { Undefined, "2025-05-09 10:00:00" }
Records ==
  [ number : Numbers, short_description : {"Patch"}, state : {"Open"},
    opened_at : OpenedAts, assigned_to : AssignedTos ]

RECURSIVE SeqsUpTo(_, _)
SeqsUpTo(S, n) ==
  IF n = 0 THEN { <<>> }
  ELSE LET shorter == SeqsUpTo(S, n - 1)
       IN shorter \cup { Append(q, x) : q \in shorter, x \in S }

UniqueNumbers(data) ==
  \A i, j \in 1..Len(data) : data[i].number = data[j].number => i = j

RenderInputs ==
  { NullBody } \cup
  { Body(success, data, Undefined) :
      success \in {"true", "false"},
      data \in { d \in SeqsUpTo(Records, MaxRecords) : UniqueNumbers(d) } }

\* date.toLocaleString() in the en-US locale
toLocaleString(d) ==
  IF d = "2025-05-09 10:00:00" THEN "5/9/2025, 10:00:00 AM" ELSE "Invalid Date"

\* formatDate
formatDate(dateString) ==
  IF ~Truthy(dateString) THEN "" ELSE toLocaleString(dateString)

\* AssignedCell with the mutation: the name of any nested object that is
\* there, the fallback only without one
AssignedCellIfPresent(record) ==
  IF record.assigned_to.present THEN record.assigned_to.display_value
  ELSE "Unassigned"

\* record.assigned_to?.display_value || 'Unassigned'
AssignedCell(record) ==
  LET v == IF record.assigned_to.present
           THEN record.assigned_to.display_value ELSE Undefined
  IN IF Truthy(v) THEN v ELSE "Unassigned"

\* one <tr>
Row(record) ==
  [ key |-> record.number,
    number |-> record.number,
    short_description |-> record.short_description,
    state |-> record.state,
    opened_at |-> formatDate(record.opened_at),
    assigned_to |-> AssignedCell(record) ]

\* results && results.success && results.data && ( ... )
Render(res) ==
  IF ~res.null /\ res.success = "true"
  THEN [rendered |-> TRUE, shown |-> TRUE, count |-> Len(res.data),
        rows |-> [i \in 1..Len(res.data) |-> Row(res.data[i])]]
  ELSE [rendered |-> TRUE, shown |-> FALSE, count |-> 0, rows |-> <<>>]

\* the component as it is before its effect has run, with nothing stored
AppIdle ==
  /\ query = <<>>
  /\ loading = FALSE
  /\ error = Null
  /\ searchHistory = <<>>
  /\ storage = [present |-> FALSE, text |-> <<>>]
  /\ phase = "constructed"
  /\ inflight = {}
  /\ nextId = 1
  /\ now = 1
  /\ arrivals = <<>>
  /\ sent = 0
  /\ historyIds = <<>>

InitRender ==
  /\ results \in RenderInputs
  /\ AppIdle
  /\ NoView /\ NoBuild /\ NoProxy

\* the render of the results block
render ==
  /\ ~view.rendered
  /\ view' = Render(results)
  /\ UNCHANGED << appVars, cssVars, proxyVars >>

NextRender == render

SpecRender == InitRender /\ [][NextRender]_vars

\* C12: for a successful result with N records the table shows the count N
\* and N rows; the assigned-to cell is assigned_to.display_value whenever
\* the nested object is present, and "Unassigned" exactly when it is
\* absent; the opened-at cell is empty when opened_at is absent.
C12_RowsAsClaimed ==
  (view.rendered /\ ~results.null /\ results.success = "true") =>
    /\ view.shown
    /\ view.count = Len(results.data)
    /\ Len(view.rows) = Len(results.data)
    /\ \A i \in 1..Len(results.data) :
         LET rec == results.data[i]
         IN /\ rec.assigned_to.present =>
                 view.rows[i].assigned_to = rec.assigned_to.display_value
            /\ (view.rows[i].assigned_to = "Unassigned")
                 <=> ~rec.assigned_to.present
            /\ rec.opened_at = Undefined => view.rows[i].opened_at = ""

\* C12, amended: as above, but the assigned-to cell is the display_value
\* when the nested object is present with a non-empty display_value, and
\* "Unassigned" otherwise: when the object is absent and also when its
\* display_value is empty or missing.
C12_RowsWithFallback ==
  (view.rendered /\ ~results.null /\ results.success = "true") =>
    /\ view.shown
    /\ view.count = Len(results.data)
    /\ Len(view.rows) = Len(results.data)
    /\ \A i \in 1..Len(results.data) :
         LET rec == results.data[i]
             named == rec.assigned_to.present
                      /\ rec.assigned_to.display_value \notin {"", Undefined}
         IN /\ view.rows[i].number = rec.number
            /\ named => view.rows[i].assigned_to = rec.assigned_to.display_value
            /\ ~named => view.rows[i].assigned_to = "Unassigned"
            /\ rec.opened_at = Undefined => view.rows[i].opened_at = ""

\* C12 witness: two rows, one with a name, one whose nested object has an
\* empty display_value and no opened_at
C12_Witness ==
  /\ view.rendered /\ view.shown
  /\ view.count = 2
  /\ view.rows[1].assigned_to = "J. Doe"
  /\ results.data[2].assigned_to = [present |-> TRUE, display_value |-> ""]
  /\ view.rows[2].assigned_to = "Unassigned"
  /\ view.rows[2].opened_at = ""

\* =========================================================================
\* The postcss plugin 'internal:virtual-env' (vite.config.ts lines 23-46)
\* =========================================================================
\* Text is a sequence of pieces.  Every character the plugin looks at is a
\* piece of its own; a stretch of text it never looks into is one piece.
UrlOpen == << "u", "r", "l", "(" >>
DataPrefix == << "d", "a", "t", "a", ":" >>
HttpPrefix == << "h", "t", "t", "p" >>
Letters == { "u", "r", "l", "d", "a", "t", "h", "p", "s" }
DevOrigin == << "h", "t", "t", "p", ":", "/", "/", "localhost:3000" >>

\* the references of the url(...) tokens: a relative path, a path from the
\* root, a data: URI, absolute http and https URLs, and a relative path
\* whose first directory is named httpdocs
RelPath == << "images/a.png" >>
RootPath == << "/", "images/a.png" >>
DataUri == DataPrefix \o << "image/png;base64,AAAA" >>
HttpUrl == HttpPrefix \o << ":", "/", "/", "cdn.example", "/", "a.png" >>
HttpsUrl == HttpPrefix \o << "s", ":", "/", "/", "cdn.example", "/", "a.png" >>
HttpDir == HttpPrefix \o << "docs/a.png" >>
Refs == { RelPath, RootPath, DataUri, HttpUrl, HttpsUrl, HttpDir }

\* the quoting styles: none, single, double
Quotes == { <<>>, << "'" >>, << "\"" >> }
Tokens == [ quote : Quotes, ref : Refs ]

\* the text of a token and of a comma-separated list of tokens; a value
\* without a token is the keyword none
TokenText(t) == UrlOpen \o t.quote \o t.ref \o t.quote \o << ")" >>
RECURSIVE ValueText(_)
ValueText(ts) ==
  IF ts = <<>> THEN << "none" >>
  ELSE IF Len(ts) = 1 THEN TokenText(ts[1])
  ELSE TokenText(ts[1]) \o << ",", " " >> \o ValueText(Tail(ts))

Declarations ==
  [ prop : {"background-image", "background"},
    tokens : SeqsUpTo(Tokens, MaxTokens) ]

\* String.prototype.startsWith and includes
StartsWith(s, p) == Len(s) >= Len(p) /\ SubSeq(s, 1, Len(p)) = p
Includes(s, p) ==
  \E i \in 1..Len(s) : i + Len(p) - 1 <= Len(s) /\ SubSeq(s, i, i + Len(p) - 1) = p

\* Href with the mutation: the reference is put under the root, the origin
\* is left out
HrefUnderRoot(url) == << "/" >> \o url

\* new URL(url, 'http://localhost:3000').href: a reference with a scheme is
\* its own result, //host/path takes the scheme of the base, /path takes its
\* origin, and a relative path is resolved in the base's directory, the root
Href(url) ==
  LET hasScheme ==
        \E k \in 2..Len(url) :
          url[k] = ":" /\ \A m \in 1..(k - 1) : url[m] \in Letters
  IN IF hasScheme THEN url
     ELSE IF StartsWith(url, << "/", "/" >>) THEN HttpPrefix \o << ":" >> \o url
     ELSE IF StartsWith(url, << "/" >>) THEN DevOrigin \o url
     ELSE DevOrigin \o << "/" >> \o url

\* . matches every character but a line break
NoLineBreak(s, from, to) == \A m \in from..to : s[m] # "\n"

\* /url\((['"]?)(.*?)\1\)/ tried at position i.  The optional quote is taken
\* if it is there, the reference is the shortest text up to that quote
\* followed by ")"; if that fails the quote group is empty and the
\* reference is the shortest text up to a ")".
MatchAt(s, i) ==
  LET k == i + 4
      quoted == k <= Len(s) /\ s[k] \in { "'", "\"" }
      closeQ == { j \in (k + 1)..(Len(s) - 1) :
                    /\ s[j] = s[k]
                    /\ s[j + 1] = ")"
                    /\ NoLineBreak(s, k + 1, j - 1) }
      closeP == { j \in k..Len(s) : s[j] = ")" /\ NoLineBreak(s, k, j - 1) }
      Min(S) == CHOOSE x \in S : \A y \in S : x <= y
  IN IF ~(i + 3 <= Len(s) /\ SubSeq(s, i, i + 3) = UrlOpen)
     THEN [ok |-> FALSE, quote |-> <<>>, url |-> <<>>, next |-> i]
     ELSE IF quoted /\ closeQ # {}
     THEN [ok |-> TRUE, quote |-> << s[k] >>,
           url |-> SubSeq(s, k + 1, Min(closeQ) - 1), next |-> Min(closeQ) + 2]
     ELSE IF closeP # {}
     THEN [ok |-> TRUE, quote |-> <<>>,
           url |-> SubSeq(s, k, Min(closeP) - 1), next |-> Min(closeP) + 1]
     ELSE [ok |-> FALSE, quote |-> <<>>, url |-> <<>>, next |-> i]

\* the replace callback (match, quote, url)
Replacement(match, quote, url) ==
  IF ~StartsWith(url, DataPrefix) /\ ~StartsWith(url, HttpPrefix)
  THEN UrlOpen \o quote \o Href(url) \o quote \o << ")" >>
  ELSE match

\* String.prototype.replace with a /g pattern, from position i on
RECURSIVE ReplaceFrom(_, _)
ReplaceFrom(s, i) ==
  IF i > Len(s) THEN <<>>
  ELSE LET m == MatchAt(s, i)
       IN IF m.ok
          THEN Replacement(SubSeq(s, i, m.next - 1), m.quote, m.url)
               \o ReplaceFrom(s, m.next)
          ELSE << s[i] >> \o ReplaceFrom(s, i + 1)

\* the body of the walkDecls callback
Rewrite(value) ==
  IF Includes(value, << "u", "r", "l" >>) THEN ReplaceFrom(value, 1) ELSE value

InitCss ==
  /\ mode \in { "development", "production" }
  /\ declIn \in Declarations
  /\ decl = ValueText(declIn.tokens)
  /\ passes = 0
  /\ results = NullBody
  /\ AppIdle
  /\ NoView /\ NoProxy

\* OnceExit(css): css.walkDecls('background-image', ...).  The plugin stands
\* in css.postcss.plugins of the one configuration object, whatever the mode
OnceExit ==
  /\ passes < MaxPasses
  /\ passes' = passes + 1
  /\ decl' = IF declIn.prop = "background-image" THEN Rewrite(decl) ELSE decl
  /\ UNCHANGED << mode, declIn, appVars, renderVars, proxyVars >>

NextCss == OnceExit

SpecCss == InitCss /\ [][NextCss]_vars

\* what C13 says the value becomes: token by token, a reference with the
\* data: scheme or an absolute http(s) scheme stays, any other is resolved
\* against the development origin, quotes and all the rest as they were
UsesDataOrHttpScheme(ref) ==
  \/ StartsWith(ref, DataPrefix)
  \/ StartsWith(ref, HttpPrefix \o << ":", "/", "/" >>)
  \/ StartsWith(ref, HttpPrefix \o << "s", ":", "/", "/" >>)

Claimed(ts) ==
  [ i \in 1..Len(ts) |->
      IF UsesDataOrHttpScheme(ts[i].ref) THEN ts[i]
      ELSE [quote |-> ts[i].quote, ref |-> Href(ts[i].ref)] ]

\* C13: in a background-image value every url(...) token is rewritten on
\* its own: resolved against http://localhost:3000 with its quoting kept
\* unless its reference uses the data: or an absolute http(s) scheme;
\* everything else stays.
C13_RewritesEveryOtherReference ==
  (passes = 1 /\ declIn.prop = "background-image")
  => decl = ValueText(Claimed(declIn.tokens))

\* C17: in a production build the plugin leaves every value as it is.
C17_DevelopmentOnly ==
  (mode = "production" /\ passes >= 1) => decl = ValueText(declIn.tokens)

\* C20: the rewrite is idempotent: applied to a value it has already
\* rewritten it changes nothing.
C20_Idempotent ==
  [][ (passes >= 1 /\ passes' = passes + 1) => decl' = decl ]_vars

\* C20 witness: a value of two tokens, the first pass rewrote it, the second
\* pass has run
C20_Witness ==
  /\ passes = 2
  /\ declIn.prop = "background-image"
  /\ Len(declIn.tokens) = 2
  /\ declIn.tokens[1] = [quote |-> << "'" >>, ref |-> RelPath]
  /\ declIn.tokens[2].ref = DataUri
  /\ decl # ValueText(declIn.tokens)
  /\ decl = ValueText(Claimed(declIn.tokens))

\* =========================================================================
\* The dev server's proxy rule (vite.config.ts lines 13-22) and the way the
\* request of handleSubmit takes to the backend
\* =========================================================================
DevServerOrigin == "http://localhost:3000"     \* server.port
ProxyTarget == "http://localhost:8000"         \* proxy['/api'].target
ApiPrefix == << "/", "a", "p", "i" >>          \* the key '/api', /^\/api/

\* encodeURIComponent, as axios applies it to a parameter value
RECURSIVE Encode(_)
Encode(q) ==
  IF q = <<>> THEN <<>>
  ELSE (IF Head(q) = "\"" THEN << "%22" >> ELSE << Head(q) >>) \o Encode(Tail(q))

\* the URL axios builds from the params object
QueryString(params) ==
  << "?", "search_query=" >> \o Encode(params.search_query)
  \o << "&", "max_results=", "100" >>

\* the requests handleSubmit sends, as they leave the browser
ControllerRequests ==
  { [origin |-> SearchRequest(q).origin,
     path |-> SearchRequest(q).path \o QueryString(SearchRequest(q).params)] :
      q \in Queries }

\* requests of the page to its own origin, the dev server: paths of up to
\* MaxSegments segments, with or without a query
Segments ==
  { ApiPrefix, << "/", "search_snow" >>, << "/", "index.html" >>, << "ry" >> }
RECURSIVE Flatten(_)
Flatten(ss) == IF ss = <<>> THEN <<>> ELSE Head(ss) \o Flatten(Tail(ss))
DevPaths ==
  { Flatten(ss) \o qs :
      ss \in { x \in SeqsUpTo(Segments, MaxSegments) : x # <<>> /\ x[1][1] = "/" },
      qs \in { <<>>, << "?", "search_query=", "x" >> } }
DevRequests == { [origin |-> DevServerOrigin, path |-> p] : p \in DevPaths }

\* rewrite: (path) => path.replace(/^\/api/, '')
rewrite(path) ==
  IF StartsWith(path, ApiPrefix) THEN SubSeq(path, Len(ApiPrefix) + 1, Len(path))
  ELSE path

\* where a request ends up.  One sent to the backend's origin goes there as
\* it is.  One sent to the dev server is forwarded to the target with its
\* path rewritten when its URL starts with the key '/api', and is served by
\* the dev server itself otherwise.
Deliver(r) ==
  IF r.origin = DevServerOrigin
  THEN IF StartsWith(r.path, ApiPrefix)
       THEN [to |-> "backend", origin |-> ProxyTarget, path |-> rewrite(r.path)]
       ELSE [to |-> "dev server", origin |-> DevServerOrigin, path |-> r.path]
  ELSE [to |-> "backend", origin |-> r.origin, path |-> r.path]

InitProxy ==
  /\ req \in DevRequests \cup ControllerRequests
  /\ delivered = [to |-> "", origin |-> "", path |-> <<>>]
  /\ results = NullBody
  /\ AppIdle
  /\ NoView /\ NoBuild

\* the request is sent
deliver ==
  /\ delivered.to = ""
  /\ delivered' = Deliver(req)
  /\ UNCHANGED << req, appVars, renderVars, cssVars >>

NextProxy == deliver

SpecProxy == InitProxy /\ [][NextProxy]_vars

\* C14: a request to the dev server whose path begins with /api goes to
\* http://localhost:8000 with exactly that prefix taken off and the rest of
\* path and query kept; and this is how the request of the controller
\* reaches the backend, as GET /search_snow?search_query=..&max_results=100.
C14_ProxyCarriesSearchRequest ==
  delivered.to # "" =>
    /\ (req.origin = DevServerOrigin /\ StartsWith(req.path, ApiPrefix)) =>
         /\ delivered.to = "backend"
         /\ delivered.origin = "http://localhost:8000"
         /\ ApiPrefix \o delivered.path = req.path
    /\ req \in ControllerRequests =>
         /\ delivered.to = "backend"
         /\ delivered.origin = "http://localhost:8000"
         /\ StartsWith(delivered.path,
                       << "/", "search_snow", "?", "search_query=" >>)

====
